---- MODULE Spec2Model ----
(***************************************************************************)
(* Per-call duplex relay of revan-ai-voice-relay: the wss 'connection'     *)
(* handler of ai_voice_relay_server.js (caller socket twilioWS, AI socket  *)
(* aiWS), connectOpenAI, finalizeAndNotify and the sessions map.           *)
(*                                                                         *)
(* One step of the model is one callback of the Node event loop run to     *)
(* completion: a socket event handler, or the continuation of the          *)
(* connection handler after `await connectOpenAI`.                         *)
(*                                                                         *)
(* connectOpenAI is the function of the earlier revision of the server,    *)
(* the only one the repository defines; the handler modelled is the one    *)
(* of ai_voice_relay_server.js, lines 165-289.  Socket behaviour is that   *)
(* of the ws package: close() is a no-op on a socket that is closing or    *)
(* closed, send() on such a socket transmits nothing and does not throw,   *)
(* and each socket emits 'close' once.                                     *)
(***************************************************************************)
EXTENDS Integers, Sequences, FiniteSets, TLC

\* ------------------------------------------------------------------ bounds
MaxCallerMsgs == 3
MaxAiMsgs == 2
MaxObjs == 2
MaxTime == 1

\* ------------------------------------------------------------- value space
Null == "<null>"          \* JS null / undefined / absent property
Empty == ""               \* the empty string, falsy like null
NoObj == 0                \* no Session object (sessions.get() === undefined)
Absent == 0               \* key not present in session.fields

Relays == {"r1", "r2"}    \* caller connections the server can accept
CallSids == {"CA1", "CA2"}
ObjIds == 1..MaxObjs      \* identities of Session objects
Keys == {"a", "b"}

\* if (x) ... / x || y : JavaScript truthiness of a string-or-null value
Truthy(x) == x # Null /\ x # Empty

\* x || y
Or(x, y) == IF Truthy(x) THEN x ELSE y

\* ---------------------------------------------------------------- messages
\* Caller-channel frames as JSON.parse sees them.  event "malformed" is a
\* payload JSON.parse rejects; event "null" is the JSON text `null`.
CallerMsg(ev, startSid, topSid, payload) ==
  [event |-> ev, startSid |-> startSid, topSid |-> topSid, payload |-> payload]

StartMsg(sid) == CallerMsg("start", sid, Null, Null)
MediaMsg(p) == CallerMsg("media", Null, Null, p)
StopMsg == CallerMsg("stop", Null, Null, Null)
BadCallerMsg == CallerMsg("malformed", Null, Null, Null)

NoFields == [k \in Keys |-> Absent]

\* AI-channel events as JSON.parse sees them.
AiMsg(type, audio, delta, text, from, hasFields, fields) ==
  [type |-> type, audio |-> audio, delta |-> delta, text |-> text,
   from |-> from, hasFields |-> hasFields, fields |-> fields]

AudioMsg(a) == AiMsg("response.audio.delta", a, Null, Null, Null, FALSE, NoFields)
OutputAudioMsg(d) ==
  AiMsg("response.output_audio.delta", Null, d, Null, Null, FALSE, NoFields)
TranscriptMsg(from, text) ==
  AiMsg("transcript.delta", Null, Null, text, from, FALSE, NoFields)
FieldsMsg(f) == AiMsg("extracted.fields", Null, Null, Null, Null, TRUE, f)
BadAiMsg == AiMsg("malformed", Null, Null, Null, Null, FALSE, NoFields)

\* ------------------------------------------------------------------- state
VARIABLES
  sessions,      \* const sessions = new Map(): callSid -> Session object
  heap,          \* the Session objects: transcript, fields, start
  nObj,          \* number of Session objects allocated so far
  now,           \* Date.now()
  webhook,       \* whether N8N_SUMMARY_WEBHOOK is configured
  settled,       \* per callSid, how the summary requests made so far ended
  pc,            \* position of the async connection handler, per relay
  callSid,       \* const callSid of the relay
  session,       \* const session of the relay (an object reference)
  streamSid,     \* let streamSid
  aiWS,          \* let aiWS: TRUE once assigned the connected socket
  aiReady,       \* let aiReady
  dump,          \* the setInterval statistics timer is running
  twState,       \* readyState of twilioWS
  aiState,       \* readyState of the socket connectOpenAI creates
  aiOut,         \* events transmitted on the AI socket, in order
  twOut,         \* media events transmitted on the caller socket, in order
  aiLate,        \* a send was attempted on the AI socket when not OPEN
  twLate,        \* a send was attempted on the caller socket when not OPEN
  aiErrors,      \* 'error' events emitted so far on the AI socket
  twErrors,      \* 'error' events emitted so far on the caller socket
  crashed,       \* an 'error' event found no listener: the process is gone
  faults,        \* AI-socket operations that throw when the stop branch calls them
  stopLog,       \* the socket operations the stop branch called, in order
  aiCalls,       \* every aiWS.send(...) call made, transmitted or not
  twCalls,       \* every twilioWS.send(...) call made, transmitted or not
  finalizeCalls, \* invocations of finalizeAndNotify made by the relay
  notified,      \* summary requests POSTed, per callSid
  uncaught,      \* an exception escaped a handler of the relay
  callerIn,      \* caller frames received by the relay, in order
  aiIn,          \* AI events received by the relay, in order
  closedAt       \* pc of the relay when the caller 'close' event fired

storeVars == <<sessions, heap, nObj, notified>>
envVars == <<now, webhook, settled>>
relayVars == <<pc, callSid, session, streamSid, aiWS, aiReady, dump>>
sockVars == <<twState, aiState, aiOut, twOut, aiLate, twLate, aiCalls, twCalls>>
obsVars == <<finalizeCalls, uncaught, callerIn, aiIn, closedAt, stopLog>>
errVars == <<aiErrors, twErrors, crashed, faults>>
vars == <<storeVars, envVars, errVars, relayVars, sockVars, obsVars>>

\* { transcript: [], fields: {}, start: Date.now() }
NewSession(t) == [transcript |-> <<>>, fields |-> NoFields, start |-> t]

Init ==
  /\ sessions = [c \in CallSids |-> NoObj]
  /\ heap = [o \in ObjIds |-> NewSession(0)]
  /\ nObj = 0
  /\ now = 0
  /\ webhook \in BOOLEAN
  /\ settled = [c \in CallSids |-> <<>>]
  /\ pc = [r \in Relays |-> "none"]
  /\ callSid = [r \in Relays |-> Null]
  /\ session = [r \in Relays |-> NoObj]
  /\ streamSid = [r \in Relays |-> Null]
  /\ aiWS = [r \in Relays |-> FALSE]
  /\ aiReady = [r \in Relays |-> FALSE]
  /\ dump = [r \in Relays |-> FALSE]
  /\ twState = [r \in Relays |-> "NONE"]
  /\ aiState = [r \in Relays |-> "NONE"]
  /\ aiOut = [r \in Relays |-> <<>>]
  /\ twOut = [r \in Relays |-> <<>>]
  /\ aiLate = [r \in Relays |-> FALSE]
  /\ twLate = [r \in Relays |-> FALSE]
  /\ aiCalls = [r \in Relays |-> <<>>]
  /\ aiErrors = [r \in Relays |-> 0]
  /\ twErrors = [r \in Relays |-> 0]
  /\ crashed = FALSE
  /\ faults = [r \in Relays |-> {}]
  /\ stopLog = [r \in Relays |-> <<>>]
  /\ twCalls = [r \in Relays |-> <<>>]
  /\ finalizeCalls = [r \in Relays |-> 0]
  /\ notified = [c \in CallSids |-> <<>>]
  /\ uncaught = [r \in Relays |-> FALSE]
  /\ callerIn = [r \in Relays |-> <<>>]
  /\ aiIn = [r \in Relays |-> <<>>]
  /\ closedAt = [r \in Relays |-> "open"]

\* ------------------------------------------------------------ ws sockets
\* Variant: close() restarts the handshake on a socket already closed, so
\* its 'close' event fires again.
CloseSock_NotIdempotent(st) == "CLOSING"

\* socket.close(): starts the closing handshake of an OPEN socket; a no-op
\* on a socket that is already CLOSING or CLOSED.
CloseSock(st) == IF st = "OPEN" THEN "CLOSING" ELSE st

\* Variant: a socket that is closing still transmits.
SendSeq_WhileClosing(st, out, evs) ==
  IF st \in {"OPEN", "CLOSING"} THEN out \o evs ELSE out

\* Variant: what is sent overtakes what was sent before.
SendSeq_Overtaking(st, out, evs) == IF st = "OPEN" THEN evs \o out ELSE out

\* socket.send(data) transmits only on an OPEN socket; on a CLOSING or
\* CLOSED socket it reports the error to the callback and does not throw.
SendSeq(st, out, evs) == IF st = "OPEN" THEN out \o evs ELSE out

SendLate(st, late) == late \/ st # "OPEN"

\* -------------------------------------------------------- SessionStore
\* app.post('/voice'): sessions.set(callSid, { transcript: [], fields: {},
\* start: Date.now() }) -- always a new object, also when one exists.
Voice(cs) ==
  /\ nObj < MaxObjs
  /\ nObj' = nObj + 1
  /\ heap' = [heap EXCEPT ![nObj + 1] = NewSession(now)]
  /\ sessions' = [sessions EXCEPT ![cs] = nObj + 1]
  /\ UNCHANGED <<notified, envVars, errVars, relayVars, sockVars, obsVars>>

\* Date.now() advances between callbacks.
Tick ==
  /\ now < MaxTime
  /\ now' = now + 1
  /\ UNCHANGED <<webhook, settled, errVars, storeVars, relayVars, sockVars, obsVars>>

\* const payload = { callSid, startedAt: s.start, endedAt: Date.now(),
\*                   transcript: s.transcript, fields: s.fields }
SummaryPayload(cs, s) ==
  [callSid |-> cs, startedAt |-> s.start, endedAt |-> now,
   transcript |-> s.transcript, fields |-> s.fields]

\* finalizeAndNotify(callSid), up to its await: the summary requests after
\* the call.  The sessions map is left as it was.
FinalizeAndNotify(cs, hp) ==
  IF sessions[cs] = NoObj \/ ~webhook
    THEN notified
    ELSE [notified EXCEPT ![cs] = Append(@, SummaryPayload(cs, hp[sessions[cs]]))]

\* ------------------------------------------------- wss.on('connection')
\* Lines 165-224: session lookup, per-call variables, statistics timer,
\* caller message handler, then the call of connectOpenAI and the await.
Connection(r, cs) ==
  /\ pc[r] = "none"
  /\ IF sessions[cs] # NoObj
       THEN /\ session' = [session EXCEPT ![r] = sessions[cs]]
            /\ UNCHANGED <<sessions, heap, nObj>>
       ELSE /\ nObj < MaxObjs
            /\ nObj' = nObj + 1
            /\ heap' = [heap EXCEPT ![nObj + 1] = NewSession(now)]
            /\ session' = [session EXCEPT ![r] = nObj + 1]
            /\ sessions' = [sessions EXCEPT ![cs] = nObj + 1]
  /\ callSid' = [callSid EXCEPT ![r] = cs]
  /\ streamSid' = [streamSid EXCEPT ![r] = Null]
  /\ aiWS' = [aiWS EXCEPT ![r] = FALSE]
  /\ aiReady' = [aiReady EXCEPT ![r] = FALSE]
  /\ dump' = [dump EXCEPT ![r] = TRUE]
  /\ twState' = [twState EXCEPT ![r] = "OPEN"]
  /\ aiState' = [aiState EXCEPT ![r] = "CONNECTING"]
  /\ pc' = [pc EXCEPT ![r] = "connecting"]
  /\ UNCHANGED <<notified, envVars, errVars, aiOut, twOut, aiLate, twLate, aiCalls,
                 twCalls, obsVars>>

\* ------------------------------------------------ twilioWS.on('message')
\* Variant: the caller listener is added only after the connect completed.
CallerHandler_AfterConnect(r) == pc[r] = "active"

\* The listener is added at line 184, before the await of line 224.
CallerHandlerRegistered(r) == pc[r] # "none"

\* streamSid = msg.start?.streamSid || msg.streamSid || null
StartSid(m) == Or(m.startSid, Or(m.topSid, Null))

\* JSON.parse throws on a malformed payload; msg.event throws on null.
CallerBodyThrows(m) == m.event \in {"malformed", "null"}

\* Variant: the caller listener has no try/catch around its body.
CallerTryCatch_Missing == FALSE

\* try { ... } catch (e) { console.error(...) } encloses the whole listener.
CallerTryCatch == TRUE

AppendEv(p) == [type |-> "input_audio_buffer.append", audio |-> p]
CommitEv == [type |-> "input_audio_buffer.commit", audio |-> Null]
ResponseEv == [type |-> "response.create", audio |-> Null]
ConfigEv == [type |-> "session.update", audio |-> Null]

\* if (aiReady && aiWS) of the media branch
MediaForwarded(r) == aiReady[r] /\ aiWS[r]

\* The operations of the stop branch and the events its two sends carry.
StopSteps == <<"commit", "response.create", "aiWS.close", "twilioWS.close">>
StopSends(r) ==
  (IF "commit" \in faults[r] THEN <<>> ELSE <<CommitEv>>)
    \o (IF "response.create" \in faults[r] THEN <<>> ELSE <<ResponseEv>>)

\* Variant: the stop branch closes the AI socket before its two sends.
OnStop_CloseFirst(r) ==
  /\ dump' = [dump EXCEPT ![r] = FALSE]
  /\ IF aiWS[r]
       THEN /\ aiOut' = [aiOut EXCEPT
                 ![r] = SendSeq(CloseSock(aiState[r]), @, StopSends(r))]
            /\ aiLate' = [aiLate EXCEPT ![r] = SendLate(CloseSock(aiState[r]), @)]
            /\ aiCalls' = [aiCalls EXCEPT ![r] = @ \o <<CommitEv, ResponseEv>>]
            /\ aiState' = [aiState EXCEPT ![r] = CloseSock(@)]
            /\ stopLog' = [stopLog EXCEPT ![r] = @ \o
                 <<"aiWS.close", "commit", "response.create", "twilioWS.close">>]
       ELSE /\ UNCHANGED <<aiOut, aiLate, aiCalls, aiState>>
            /\ stopLog' = [stopLog EXCEPT ![r] = Append(@, "twilioWS.close")]
  /\ twState' = [twState EXCEPT ![r] = CloseSock(@)]
  /\ UNCHANGED <<streamSid>>

\* Variant: the closing response.create is sent before the commit.
OnStop_ResponseFirst(r) ==
  /\ dump' = [dump EXCEPT ![r] = FALSE]
  /\ IF aiWS[r]
       THEN /\ aiOut' = [aiOut EXCEPT
                 ![r] = SendSeq(aiState[r], @, <<ResponseEv, CommitEv>>)]
            /\ aiLate' = [aiLate EXCEPT ![r] = SendLate(aiState[r], @)]
            /\ aiCalls' = [aiCalls EXCEPT ![r] = @ \o <<ResponseEv, CommitEv>>]
            /\ aiState' = [aiState EXCEPT ![r] = CloseSock(@)]
            /\ stopLog' = [stopLog EXCEPT ![r] = @ \o
                 <<"response.create", "commit", "aiWS.close", "twilioWS.close">>]
       ELSE /\ UNCHANGED <<aiOut, aiLate, aiCalls, aiState>>
            /\ stopLog' = [stopLog EXCEPT ![r] = Append(@, "twilioWS.close")]
  /\ twState' = [twState EXCEPT ![r] = CloseSock(@)]
  /\ UNCHANGED <<streamSid>>

\* Variant: one try/catch around the whole teardown, so the first operation
\* that throws ends it.
OnStop_OneTry(r) ==
  LET firstBad == IF ~aiWS[r] \/ faults[r] = {} THEN 4
                  ELSE CHOOSE i \in 1..3 :
                         /\ StopSteps[i] \in faults[r]
                         /\ \A j \in 1..(i - 1) : StopSteps[j] \notin faults[r]
      sends == IF firstBad = 1 THEN <<>>
               ELSE IF firstBad = 2 THEN <<CommitEv>> ELSE <<CommitEv, ResponseEv>>
  IN /\ dump' = [dump EXCEPT ![r] = FALSE]
     /\ IF aiWS[r]
          THEN /\ aiOut' = [aiOut EXCEPT ![r] = SendSeq(aiState[r], @, sends)]
               /\ aiLate' = [aiLate EXCEPT ![r] = SendLate(aiState[r], @)]
               /\ aiCalls' = [aiCalls EXCEPT ![r] =
                      @ \o SubSeq(<<CommitEv, ResponseEv>>, 1, IF firstBad > 2 THEN 2 ELSE firstBad)]
               /\ aiState' = [aiState EXCEPT ![r] = IF firstBad = 4 THEN CloseSock(@) ELSE @]
               /\ stopLog' = [stopLog EXCEPT ![r] =
                      @ \o SubSeq(StopSteps, 1, firstBad)]
          ELSE /\ UNCHANGED <<aiOut, aiLate, aiCalls, aiState>>
               /\ stopLog' = [stopLog EXCEPT ![r] = Append(@, "twilioWS.close")]
     /\ twState' = [twState EXCEPT ![r] = IF firstBad = 4 THEN CloseSock(@) ELSE @]
     /\ UNCHANGED <<streamSid>>

\* The stop branch, lines 206-216: each AI-socket operation in a try/catch
\* of its own, so one that throws is skipped and the next one runs.
OnStop(r) ==
  /\ dump' = [dump EXCEPT ![r] = FALSE]
  /\ IF aiWS[r]
       THEN /\ aiOut' = [aiOut EXCEPT ![r] = SendSeq(aiState[r], @, StopSends(r))]
            /\ aiLate' = [aiLate EXCEPT ![r] = SendLate(aiState[r], @)]
            /\ aiCalls' = [aiCalls EXCEPT ![r] = @ \o <<CommitEv, ResponseEv>>]
            /\ aiState' = [aiState EXCEPT ![r] =
                   IF "aiWS.close" \in faults[r] THEN @ ELSE CloseSock(@)]
            /\ stopLog' = [stopLog EXCEPT ![r] = @ \o StopSteps]
       ELSE /\ UNCHANGED <<aiOut, aiLate, aiCalls, aiState>>
            /\ stopLog' = [stopLog EXCEPT ![r] = Append(@, "twilioWS.close")]
  /\ twState' = [twState EXCEPT ![r] = CloseSock(@)]
  /\ UNCHANGED <<streamSid>>

\* The media branch, lines 194-204.
OnMedia(r, m) ==
  /\ IF MediaForwarded(r)
       THEN /\ aiOut' = [aiOut EXCEPT
                 ![r] = SendSeq(aiState[r], @, <<AppendEv(m.payload)>>)]
            /\ aiLate' = [aiLate EXCEPT ![r] = SendLate(aiState[r], @)]
            /\ aiCalls' = [aiCalls EXCEPT ![r] = Append(@, AppendEv(m.payload))]
       ELSE UNCHANGED <<aiOut, aiLate, aiCalls>>
  /\ UNCHANGED <<streamSid, dump, aiState, twState, stopLog>>

\* Variant: streamSid is one variable shared by all connections.
OnStart_SharedStreamSid(r, m) ==
  /\ streamSid' = [q \in Relays |-> StartSid(m)]
  /\ UNCHANGED <<dump, aiOut, aiLate, aiCalls, aiState, twState, stopLog>>

\* Variant: the route is taken from the first start frame only
\* (streamSid = streamSid || ...).
OnStart_FirstWins(r, m) ==
  /\ streamSid' = [streamSid EXCEPT ![r] = Or(@, StartSid(m))]
  /\ UNCHANGED <<dump, aiOut, aiLate, aiCalls, aiState, twState, stopLog>>

\* The start branch, lines 188-192.
OnStart(r, m) ==
  /\ streamSid' = [streamSid EXCEPT ![r] = StartSid(m)]
  /\ UNCHANGED <<dump, aiOut, aiLate, aiCalls, aiState, twState, stopLog>>

\* A caller frame arrives on the socket of relay r.
TwilioMessage(r, m) ==
  /\ pc[r] # "none"
  /\ twState[r] \in {"OPEN", "CLOSING"}
  /\ Len(callerIn[r]) < MaxCallerMsgs
  /\ callerIn' = [callerIn EXCEPT
       ![r] = Append(@, [m |-> m, ai |-> aiState[r], nAi |-> Len(aiIn[r])])]
  /\ IF ~CallerHandlerRegistered(r) \/ CallerBodyThrows(m)
       THEN UNCHANGED <<streamSid, dump, aiOut, aiLate, aiCalls, aiState, twState,
                        stopLog>>
       ELSE CASE m.event = "start" -> OnStart(r, m)
              [] m.event = "media" /\ Truthy(m.payload) -> OnMedia(r, m)
              [] m.event = "stop" -> OnStop(r)
              [] OTHER -> UNCHANGED <<streamSid, dump, aiOut, aiLate, aiCalls,
                                      aiState, twState, stopLog>>
  /\ uncaught' = [uncaught EXCEPT ![r] =
       @ \/ (CallerHandlerRegistered(r) /\ CallerBodyThrows(m) /\ ~CallerTryCatch)]
  /\ UNCHANGED <<storeVars, envVars, errVars, pc, callSid, session, aiWS, aiReady,
                 twOut, twLate, twCalls, finalizeCalls, aiIn, closedAt>>

\* ------------------------------------------------------- connectOpenAI
\* Variant: the promise resolves before session.update is sent, so the
\* greeting goes out first.
ConnectOpen_GreetingFirst(r) ==
  /\ pc[r] = "connecting"
  /\ aiState[r] = "CONNECTING"
  /\ aiState' = [aiState EXCEPT ![r] = "OPEN"]
  /\ aiWS' = [aiWS EXCEPT ![r] = TRUE]
  /\ aiReady' = [aiReady EXCEPT ![r] = TRUE]
  /\ aiOut' = [aiOut EXCEPT ![r] = SendSeq("OPEN", @, <<ResponseEv, ConfigEv>>)]
  /\ aiCalls' = [aiCalls EXCEPT ![r] = @ \o <<ResponseEv, ConfigEv>>]
  /\ pc' = [pc EXCEPT ![r] = "active"]
  /\ UNCHANGED <<storeVars, envVars, errVars, callSid, session, streamSid, dump,
                 twState, twOut, aiLate, twLate, twCalls, obsVars>>

\* socket.once('open'): session.update is sent and the promise resolves;
\* the continuation of the connection handler (lines 224-288) runs in the
\* same turn of the event loop: aiWS, aiReady, the greeting, the AI
\* listeners and, last, the caller 'close' listener.
ConnectOpen(r) ==
  /\ pc[r] = "connecting"
  /\ aiState[r] = "CONNECTING"
  /\ aiState' = [aiState EXCEPT ![r] = "OPEN"]
  /\ aiWS' = [aiWS EXCEPT ![r] = TRUE]
  /\ aiReady' = [aiReady EXCEPT ![r] = TRUE]
  /\ aiOut' = [aiOut EXCEPT ![r] = SendSeq("OPEN", @, <<ConfigEv, ResponseEv>>)]
  /\ aiCalls' = [aiCalls EXCEPT ![r] = @ \o <<ConfigEv, ResponseEv>>]
  /\ pc' = [pc EXCEPT ![r] = "active"]
  /\ UNCHANGED <<storeVars, envVars, errVars, callSid, session, streamSid, dump,
                 twState, twOut, aiLate, twLate, twCalls, obsVars>>

\* socket.once('error', reject) during the handshake: the await throws and
\* the catch of lines 277-281 closes the caller socket and returns.
ConnectError(r) ==
  /\ pc[r] = "connecting"
  /\ aiState[r] = "CONNECTING"
  /\ aiState' = [aiState EXCEPT ![r] = "CLOSED"]
  /\ twState' = [twState EXCEPT ![r] = CloseSock(@)]
  /\ pc' = [pc EXCEPT ![r] = "failed"]
  /\ aiErrors' = [aiErrors EXCEPT ![r] = @ + 1]
  /\ UNCHANGED <<storeVars, envVars, twErrors, crashed, faults, callSid, session, streamSid, aiWS,
                 aiReady, dump, aiOut, twOut, aiLate, twLate, aiCalls, twCalls,
                 obsVars>>

\* ---------------------------------------------------- aiWS.on('message')
\* JSON.parse throws on a malformed payload; msg.type throws on null.
AiBodyThrows(m) == m.type \in {"malformed", "null"}

\* try { ... } catch (_) {} encloses the whole listener.
AiTryCatch == TRUE

\* Variant: any event with an audio or delta field counts, whatever its type.
IsAudioDelta_AnyType(m) == Truthy(m.audio) \/ Truthy(m.delta)

\* const isAudioDelta = (type === 'response.audio.delta' && msg.audio) ||
\*                      (type === 'response.output_audio.delta' && msg.delta)
IsAudioDelta(m) ==
  \/ m.type = "response.audio.delta" /\ Truthy(m.audio)
  \/ m.type = "response.output_audio.delta" /\ Truthy(m.delta)

\* const audioPayload = msg.audio || msg.delta
AudioPayload(m) == Or(m.audio, m.delta)

\* Variant: the audio branch sends without looking at streamSid.
RouteKnown_Ignored(r) == TRUE

\* if (streamSid) of the audio branch
RouteKnown(r) == Truthy(streamSid[r])

\* { event: 'media', streamSid, media: { payload: audioPayload } }
MediaEv(sid, p) == [event |-> "media", streamSid |-> sid, payload |-> p]

\* Variant: the new entry is put at the front (unshift for push).
PushTranscript_AtFront(tr, m) ==
  <<[from |-> Or(m.from, "agent"), text |-> m.text, t |-> now]>> \o tr

\* session.transcript.push({ from: msg.from || 'agent', text, t: Date.now() })
PushTranscript(tr, m) ==
  Append(tr, [from |-> Or(m.from, "agent"), text |-> m.text, t |-> now])

\* Variant: the stored value wins over the incoming one.
AssignFields_FirstWins(f, g) == [k \in Keys |-> IF f[k] # Absent THEN f[k] ELSE g[k]]

\* Object.assign(session.fields, msg.fields)
AssignFields(f, g) == [k \in Keys |-> IF g[k] # Absent THEN g[k] ELSE f[k]]

\* The Session record after the transcript and fields branches (263-268).
SessionAfter(s, m) ==
  LET tr == IF m.type = "transcript.delta" /\ Truthy(m.text)
              THEN PushTranscript(s.transcript, m) ELSE s.transcript
      fl == IF m.type = "extracted.fields" /\ m.hasFields
              THEN AssignFields(s.fields, m.fields) ELSE s.fields
  IN [s EXCEPT !.transcript = tr, !.fields = fl]

\* An AI event arrives on the connected socket of relay r.
AIMessage(r, m) ==
  /\ pc[r] = "active"
  /\ aiState[r] \in {"OPEN", "CLOSING"}
  /\ Len(aiIn[r]) < MaxAiMsgs
  /\ aiIn' = [aiIn EXCEPT
       ![r] = Append(@, [m |-> m, sid |-> streamSid[r], tw |-> twState[r]])]
  /\ IF AiBodyThrows(m)
       THEN UNCHANGED <<twOut, twLate, twCalls, heap>>
       ELSE /\ IF IsAudioDelta(m) /\ Truthy(AudioPayload(m)) /\ RouteKnown(r)
                 THEN /\ twOut' = [twOut EXCEPT ![r] = SendSeq(twState[r], @,
                             <<MediaEv(streamSid[r], AudioPayload(m))>>)]
                      /\ twLate' = [twLate EXCEPT ![r] = SendLate(twState[r], @)]
                      /\ twCalls' = [twCalls EXCEPT ![r] =
                             Append(@, MediaEv(streamSid[r], AudioPayload(m)))]
                 ELSE UNCHANGED <<twOut, twLate, twCalls>>
            /\ heap' = [heap EXCEPT ![session[r]] = SessionAfter(@, m)]
  /\ uncaught' = [uncaught EXCEPT ![r] = @ \/ (AiBodyThrows(m) /\ ~AiTryCatch)]
  /\ UNCHANGED <<sessions, nObj, notified, envVars, errVars, relayVars, twState,
                 aiState, aiOut, aiLate, aiCalls, finalizeCalls, callerIn,
                 closedAt, stopLog>>

\* ------------------------------------------------------ aiWS.on('close')
\* The AI socket's 'close' event, lines 272-275.
AIClose(r) ==
  /\ pc[r] = "active"
  /\ aiState' = [aiState EXCEPT ![r] = "CLOSED"]
  /\ dump' = [dump EXCEPT ![r] = FALSE]
  /\ twState' = [twState EXCEPT ![r] = CloseSock(@)]
  /\ UNCHANGED <<storeVars, envVars, errVars, pc, callSid, session, streamSid, aiWS,
                 aiReady, aiOut, twOut, aiLate, twLate, aiCalls, twCalls,
                 obsVars>>

\* The AI service ends the connection.
AIRemoteClose(r) == aiState[r] = "OPEN" /\ AIClose(r)

\* The closing handshake started by aiWS.close() completes.
AICloseDone(r) == aiState[r] = "CLOSING" /\ AIClose(r)

\* ---------------------------------------------------- twilioWS.on('close')
\* Variant: the 'close' listener is added before the await, so it is there
\* on every path.
CloseHandler_BeforeAwait(r) == pc[r] # "none"

\* The listener is added at line 284, after the await of line 224, and only
\* when the connect succeeded (the catch returns at line 280).
CloseHandlerRegistered(r) == pc[r] = "active"

\* The caller socket's 'close' event; lines 284-288 when the listener is there.
TwilioClose(r) ==
  /\ pc[r] # "none"
  /\ twState' = [twState EXCEPT ![r] = "CLOSED"]
  /\ closedAt' = [closedAt EXCEPT ![r] = pc[r]]
  /\ IF CloseHandlerRegistered(r)
       THEN /\ dump' = [dump EXCEPT ![r] = FALSE]
            /\ finalizeCalls' = [finalizeCalls EXCEPT ![r] = @ + 1]
            /\ notified' = FinalizeAndNotify(callSid[r], heap)
            /\ aiState' = [aiState EXCEPT ![r] = IF aiWS[r] THEN CloseSock(@) ELSE @]
       ELSE UNCHANGED <<dump, finalizeCalls, notified, aiState>>
  /\ UNCHANGED <<sessions, heap, nObj, envVars, errVars, pc, callSid, session,
                 streamSid, aiWS, aiReady, aiOut, twOut, aiLate, twLate,
                 aiCalls, twCalls, uncaught, callerIn, aiIn, stopLog>>

\* The caller hangs up or Twilio drops the stream.
TwilioRemoteClose(r) == twState[r] = "OPEN" /\ TwilioClose(r)

\* The closing handshake started by twilioWS.close() completes.
TwilioCloseDone(r) == twState[r] = "CLOSING" /\ TwilioClose(r)

\* --------------------------------------------------------- specifications
One == {"r1"}
LifeCallerMsgs == {StartMsg("SX1"), MediaMsg("P1"), StopMsg}
LifeAiMsgs == {AudioMsg("A1"), BadAiMsg}

\* One call: lifecycle, routing and teardown.
Next ==
  \/ \E r \in One : Connection(r, "CA1")
  \/ \E r \in One, m \in LifeCallerMsgs : TwilioMessage(r, m)
  \/ \E r \in One : ConnectOpen(r)
  \/ \E r \in One : ConnectError(r)
  \/ \E r \in One, m \in LifeAiMsgs : AIMessage(r, m)
  \/ \E r \in One : AIRemoteClose(r)
  \/ \E r \in One : AICloseDone(r)
  \/ \E r \in One : TwilioRemoteClose(r)
  \/ \E r \in One : TwilioCloseDone(r)

Spec == Init /\ [][Next]_vars

FieldMaps == {[a |-> 1, b |-> Absent], [a |-> 2, b |-> 3], [a |-> Absent, b |-> 3]}
DataAiMsgs ==
  {TranscriptMsg(Null, "t1"), TranscriptMsg("caller", "t2"), TranscriptMsg(Null, Empty),
   AiMsg("extracted.fields", Null, Null, Null, Null, FALSE, NoFields)}
  \cup {FieldsMsg(f) : f \in FieldMaps}

\* One call: what the AI channel's transcript and field events do to the
\* Session, with POST /voice and the clock running alongside.
NextData ==
  \/ Voice("CA1")
  \/ Tick
  \/ \E r \in One : Connection(r, "CA1")
  \/ \E r \in One : ConnectOpen(r)
  \/ \E r \in One, m \in DataAiMsgs : AIMessage(r, m)
  \/ \E r \in One : AIRemoteClose(r)
  \/ \E r \in One : AICloseDone(r)
  \/ \E r \in One : TwilioRemoteClose(r)
  \/ \E r \in One : TwilioCloseDone(r)

SpecData == Init /\ [][NextData]_vars

\* The closing handshakes the relay itself started run to completion (ws
\* destroys the socket when the peer does not answer); what the caller and
\* the AI service send, and when, is up to them.
FairSpec ==
  /\ Spec
  /\ \A r \in One : WF_vars(AICloseDone(r)) /\ WF_vars(TwilioCloseDone(r))

\* ------------------------------------------------------- observations
\* The audio deltas among the AI events received, by position.
AudioIdx(r) == {i \in DOMAIN aiIn[r] : IsAudioDelta(aiIn[r][i].m)}

StartSeen(r) == \E i \in DOMAIN callerIn[r] : callerIn[r][i].m.event = "start"

\* The stream identifier a start frame carries (Null when it carries none).
Carried(m) ==
  IF Truthy(m.startSid) THEN m.startSid
  ELSE IF Truthy(m.topSid) THEN m.topSid ELSE Null

RECURSIVE LastStartSid(_)
LastStartSid(log) ==
  IF log = <<>> THEN Null
  ELSE IF log[Len(log)].m.event = "start" THEN Carried(log[Len(log)].m)
  ELSE LastStartSid(SubSeq(log, 1, Len(log) - 1))

\* The media events owed to the caller: one per audio delta received while
\* the route was known and the caller socket open, in receipt order.
RECURSIVE Forwarded(_)
Forwarded(log) ==
  IF log = <<>> THEN <<>>
  ELSE LET e == log[Len(log)]
           rest == Forwarded(SubSeq(log, 1, Len(log) - 1))
       IN IF IsAudioDelta(e.m) /\ Truthy(e.sid) /\ e.tw = "OPEN"
            THEN Append(rest, [event |-> "media", streamSid |-> e.sid,
                               payload |-> Or(e.m.audio, e.m.delta)])
            ELSE rest

\* --------------------------------------------------------------- claims

\* C1: no media event reaches (or is attempted on) the caller channel
\* before a start frame was received; an audio delta received while
\* streamSid is null produces no send, and no exception escapes the AI
\* message handler.
C1_NoMediaBeforeStart ==
  \A r \in Relays :
    /\ (twOut[r] # <<>> \/ twLate[r]) => StartSeen(r)
    /\ \A i \in DOMAIN twOut[r] : Truthy(twOut[r][i].streamSid)
    /\ (\A i \in AudioIdx(r) : ~Truthy(aiIn[r][i].sid))
         => twOut[r] = <<>> /\ ~twLate[r]
    /\ Len(twOut[r]) <= Cardinality({i \in AudioIdx(r) : Truthy(aiIn[r][i].sid)})
    /\ ~uncaught[r]

\* An audio delta and a malformed AI event were received with streamSid
\* still null, and nothing was sent to the caller.
C1_Witness ==
  \E r \in Relays :
    /\ Len(aiIn[r]) = 2
    /\ aiIn[r][1].m = BadAiMsg
    /\ aiIn[r][2].m = AudioMsg("A1") /\ aiIn[r][2].sid = Null
    /\ aiIn[r][2].tw = "OPEN"
    /\ twOut[r] = <<>>

\* C2: after a failed connect the caller channel is closed (close() was
\* called on it) and finalizeAndNotify was not, and is never, invoked.
C2_ConnectFailureSkipsNotify ==
  \A r \in Relays :
    pc[r] = "failed" =>
      /\ twState[r] \in {"CLOSING", "CLOSED"}
      /\ finalizeCalls[r] = 0
      /\ notified[callSid[r]] = <<>>

\* The connect failed after start, media and stop had arrived, and the
\* caller channel has since closed.
C2_Witness ==
  \E r \in Relays :
    /\ pc[r] = "failed"
    /\ twState[r] = "CLOSED"
    /\ closedAt[r] = "failed"
    /\ Len(callerIn[r]) = 3
    /\ callerIn[r][3].m = StopMsg /\ callerIn[r][3].ai = "CONNECTING"

\* C3: a call whose caller channel closes after the connect succeeded has
\* finalizeAndNotify invoked exactly once, and no call has it invoked twice.
C3_FinalizeExactlyOnce ==
  \A r \in Relays :
    /\ finalizeCalls[r] <= 1
    /\ closedAt[r] = "active" => finalizeCalls[r] = 1

\* Stop was received, the AI channel closed and the caller channel closed:
\* all three close() calls happened, and finalize ran once.
C3_Witness ==
  \E r \in Relays :
    /\ closedAt[r] = "active"
    /\ \E i \in DOMAIN callerIn[r] :
         callerIn[r][i].m = StopMsg /\ callerIn[r][i].ai = "OPEN"
    /\ aiState[r] = "CLOSED" /\ twState[r] = "CLOSED"
    /\ finalizeCalls[r] = 1

\* C4: streamSid is the identifier carried by the latest start frame
\* received, whether it came before or after the connect completed, and
\* every audio delta received with the route known and the caller channel
\* open was forwarded with it.
C4_StartNeverLost ==
  \A r \in Relays :
    /\ streamSid[r] = LastStartSid(callerIn[r])
    /\ twOut[r] = Forwarded(aiIn[r])

\* Start arrived while the connect was pending and a later audio delta was
\* forwarded with its streamSid.
C4_Witness ==
  \E r \in Relays :
    /\ callerIn[r] # <<>>
    /\ callerIn[r][1].m = StartMsg("SX1") /\ callerIn[r][1].ai = "CONNECTING"
    /\ twOut[r] = <<MediaEv("SX1", "A1")>>

\* C5: whenever the caller channel has closed and the connect succeeded,
\* finalizeAndNotify has run exactly once.
C5_FinalizeOnEveryCallerClose ==
  \A r \in Relays :
    (twState[r] = "CLOSED" /\ pc[r] = "active") => finalizeCalls[r] = 1

\* C6: once the caller channel has closed, an AI channel that is connected
\* (then or later) is eventually closed.
C6_NoLeakedAiChannel ==
  \A r \in One :
    (twState[r] = "CLOSED" /\ aiState[r] = "OPEN") ~> (aiState[r] = "CLOSED")

\* C7: once the AI channel has closed after a successful connect, the
\* caller channel is eventually closed with finalizeAndNotify run once.
C7_AiCloseEndsCall ==
  \A r \in One :
    (pc[r] = "active" /\ aiState[r] = "CLOSED")
      ~> (twState[r] = "CLOSED" /\ finalizeCalls[r] = 1)

\* Scenario A: the caller frames received are start, one media frame, stop.
ScenarioA(r) ==
  /\ Len(callerIn[r]) = 3
  /\ callerIn[r][1].m = StartMsg("SX1")
  /\ callerIn[r][2].m = MediaMsg("P1")
  /\ callerIn[r][3].m = StopMsg

\* What Scenario A promises: after the configuration and the greeting the AI
\* channel got one append, then one commit and one response.create; close()
\* was called on both channels; the caller got media only for the audio
\* deltas received before stop.
ScenarioAOutcome(r) ==
  /\ aiOut[r] = <<ConfigEv, ResponseEv, AppendEv("P1"), CommitEv, ResponseEv>>
  /\ aiState[r] \in {"CLOSING", "CLOSED"}
  /\ twState[r] \in {"CLOSING", "CLOSED"}
  /\ twOut[r] = Forwarded(SubSeq(aiIn[r], 1, callerIn[r][3].nAi))

\* C10 as stated: Scenario A on a connected relay has the promised outcome.
C10_ScenarioA_AsStated ==
  \A r \in Relays : (pc[r] = "active" /\ ScenarioA(r)) => ScenarioAOutcome(r)

\* C10, amended: Scenario A has the promised outcome when the AI channel
\* was open (connected, not closed) on receipt of the media frame and of
\* the stop frame.
C10_ScenarioA ==
  \A r \in Relays :
    (ScenarioA(r) /\ callerIn[r][2].ai = "OPEN" /\ callerIn[r][3].ai = "OPEN")
      => ScenarioAOutcome(r)

\* Scenario A ran on an open AI channel, with one audio delta forwarded
\* before stop and one received after it.
C10_Witness ==
  \E r \in Relays :
    /\ ScenarioA(r)
    /\ callerIn[r][2].ai = "OPEN" /\ callerIn[r][3].ai = "OPEN"
    /\ callerIn[r][3].nAi = 1
    /\ Len(aiIn[r]) = 2 /\ aiIn[r][2].m = AudioMsg("A1")
    /\ twOut[r] = <<MediaEv("SX1", "A1")>>
    /\ aiState[r] = "CLOSED" /\ twState[r] = "CLOSED"

\* The transcript entries owed to a Session: one per transcript.delta with
\* a text, in receipt order, the speaker defaulting to the agent.
RECURSIVE ReceivedTranscript(_)
ReceivedTranscript(log) ==
  IF log = <<>> THEN <<>>
  ELSE LET e == log[Len(log)]
           rest == ReceivedTranscript(SubSeq(log, 1, Len(log) - 1))
       IN IF e.m.type = "transcript.delta" /\ Truthy(e.m.text)
            THEN Append(rest, [from |-> IF Truthy(e.m.from) THEN e.m.from ELSE "agent",
                               text |-> e.m.text])
            ELSE rest

Spoken(tr) == [i \in DOMAIN tr |-> [from |-> tr[i].from, text |-> tr[i].text]]

IsPrefix(p, q) == Len(p) <= Len(q) /\ SubSeq(q, 1, Len(p)) = p

\* C8: every step leaves each Session's transcript a prefix of what it
\* becomes (never shorter, no entry changed or moved), and the relay's
\* transcript lists the transcript.delta events in the order received.
C8_TranscriptAppendOnly ==
  /\ [][\A o \in ObjIds : IsPrefix(heap[o].transcript, heap'[o].transcript)]_vars
  /\ [](\A r \in One : pc[r] # "none" =>
          /\ Spoken(heap[session[r]].transcript) = ReceivedTranscript(aiIn[r])
          /\ \A i, j \in DOMAIN heap[session[r]].transcript :
               i <= j => heap[session[r]].transcript[i].t
                           <= heap[session[r]].transcript[j].t)

\* Two deltas were received, at different times, and both are in the
\* transcript in that order.
C8_Witness ==
  \E r \in One :
    /\ pc[r] = "active"
    /\ Len(aiIn[r]) = 2
    /\ aiIn[r][1].m = TranscriptMsg("caller", "t2")
    /\ aiIn[r][2].m = TranscriptMsg(Null, "t1")
    /\ heap[session[r]].transcript =
         <<[from |-> "caller", text |-> "t2", t |-> 0],
           [from |-> "agent", text |-> "t1", t |-> 1]>>

\* The value a key has after the extracted.fields events of a log: that of
\* the latest event that contains the key.
RECURSIVE LatestValue(_, _)
LatestValue(log, k) ==
  IF log = <<>> THEN Absent
  ELSE LET e == log[Len(log)]
       IN IF e.m.type = "extracted.fields" /\ e.m.hasFields /\ e.m.fields[k] # Absent
            THEN e.m.fields[k]
            ELSE LatestValue(SubSeq(log, 1, Len(log) - 1), k)

\* C9: the Session's fields map holds, per key, the value of the latest
\* extracted.fields event that contained it.
C9_FieldsLastWriteWins ==
  \A r \in One :
    pc[r] # "none" =>
      \A k \in Keys : heap[session[r]].fields[k] = LatestValue(aiIn[r], k)

\* {a:1} then {a:2,b:3} was received and the map is {a:2,b:3}.
C9_Witness ==
  \E r \in One :
    /\ Len(aiIn[r]) = 2
    /\ aiIn[r][1].m = FieldsMsg([a |-> 1, b |-> Absent])
    /\ aiIn[r][2].m = FieldsMsg([a |-> 2, b |-> 3])
    /\ heap[session[r]].fields = [a |-> 2, b |-> 3]

\* ------------------------------------------------ two caller connections
MaxPairMsgs == 2

\* What each of the two connections carries: its own stream id and payloads.
PairSid(r) == IF r = "r1" THEN "SX1" ELSE "SX2"
PairFrame(r) == IF r = "r1" THEN "P1" ELSE "P2"
PairAudio(r) == IF r = "r1" THEN "A1" ELSE "A2"
PairCallerMsgs(r) == {StartMsg(PairSid(r)), MediaMsg(PairFrame(r)), StopMsg}
PairAiMsgs(r) == {AudioMsg(PairAudio(r)), TranscriptMsg(Null, PairAudio(r))}

\* The messages received so far on all four sockets.
PairReceived ==
  Len(callerIn["r1"]) + Len(callerIn["r2"]) + Len(aiIn["r1"]) + Len(aiIn["r2"])

\* Two connections accepted by the same wss.on('connection') handler, each
\* with the callSid of its URL: the same call twice, or two calls.
NextPair ==
  \/ \E r \in Relays, cs \in CallSids : Connection(r, cs)
  \/ \E r \in Relays : \E m \in PairCallerMsgs(r) :
       PairReceived < MaxPairMsgs /\ TwilioMessage(r, m)
  \/ \E r \in Relays : ConnectOpen(r)
  \/ \E r \in Relays : ConnectError(r)
  \/ \E r \in Relays : \E m \in PairAiMsgs(r) :
       PairReceived < MaxPairMsgs /\ AIMessage(r, m)
  \/ \E r \in Relays : AIRemoteClose(r)
  \/ \E r \in Relays : AICloseDone(r)
  \/ \E r \in Relays : TwilioRemoteClose(r)
  \/ \E r \in Relays : TwilioCloseDone(r)

\* The deployment has N8N_SUMMARY_WEBHOOK set.
InitPair == Init /\ webhook

SpecPair == InitPair /\ [][NextPair]_vars

\* How often finalizeAndNotify was called with this callSid, over all
\* connections.
FinalizeRuns(cs) ==
  LET n(r) == IF callSid[r] = cs THEN finalizeCalls[r] ELSE 0
  IN n("r1") + n("r2")

\* C11: at most one finalize-and-notify, and at most one summary request,
\* per callSid, over all connections and close events bearing that callSid.
C11_OneFinalizePerCall ==
  \A cs \in CallSids : FinalizeRuns(cs) <= 1 /\ Len(notified[cs]) <= 1

\* C12: once finalizeAndNotify has run for a callSid, the sessions map no
\* longer holds the finalized record under that callSid, so that a later
\* lookup creates a fresh Session.
C12_FinalizedSessionRemoved ==
  \A r \in Relays :
    finalizeCalls[r] > 0 => sessions[callSid[r]] # session[r]

\* A relay starts in this step.
RelayStarts(r) == pc[r] = "none" /\ pc'[r] # "none"

\* C13: a relay starting for a callSid that has a Session uses that record
\* and leaves it as it is; it creates an empty record with start = now only
\* when there is none; and the record stored for a callSid, once created,
\* is never created again.
C13_SessionCreatedOnce ==
  [][ /\ \A r \in Relays :
           RelayStarts(r) =>
             IF sessions[callSid'[r]] # NoObj
               THEN /\ session'[r] = sessions[callSid'[r]]
                    /\ heap' = heap /\ sessions' = sessions
               ELSE /\ sessions'[callSid'[r]] = session'[r]
                    /\ session'[r] \notin {sessions[c] : c \in CallSids}
                    /\ heap'[session'[r]] = NewSession(now)
      /\ \A cs \in CallSids :
           sessions[cs] # NoObj => sessions'[cs] = sessions[cs] ]_vars

\* ------------------------------------------------- shapes of AI events
\* AI events of both audio shapes, with the other shape's field present or
\* not, with an empty payload, of another type, and one that does not parse.
ShapeAiMsgs ==
  {AudioMsg("A1"), OutputAudioMsg("D1"), AudioMsg(Empty),
   AiMsg("response.output_audio.delta", "A1", "D1", Null, Null, FALSE, NoFields),
   AiMsg("response.done", "A1", Null, Null, Null, FALSE, NoFields),
   BadAiMsg}
ShapeCallerMsgs == {StartMsg("SX1")}

\* One call: what the relay does with each shape of AI event, before and
\* after the caller's start frame, while either side may close.
NextShape ==
  \/ \E r \in One : Connection(r, "CA1")
  \/ \E r \in One, m \in ShapeCallerMsgs : TwilioMessage(r, m)
  \/ \E r \in One : ConnectOpen(r)
  \/ \E r \in One, m \in ShapeAiMsgs : AIMessage(r, m)
  \/ \E r \in One : AIRemoteClose(r)
  \/ \E r \in One : AICloseDone(r)
  \/ \E r \in One : TwilioRemoteClose(r)
  \/ \E r \in One : TwilioCloseDone(r)

SpecShape == Init /\ [][NextShape]_vars

\* The field of the shape an AI event matched: audio for
\* response.audio.delta, delta for response.output_audio.delta.
ShapeField(m) == IF m.type = "response.audio.delta" THEN m.audio ELSE m.delta

\* The media events the claim C14 expects for the AI events received: one
\* per event of an audio shape received with the route known, carrying the
\* matched shape's field.
RECURSIVE MediaByShape(_)
MediaByShape(log) ==
  IF log = <<>> THEN <<>>
  ELSE LET e == log[Len(log)]
           rest == MediaByShape(SubSeq(log, 1, Len(log) - 1))
       IN IF IsAudioDelta(e.m) /\ Truthy(e.sid)
            THEN Append(rest, MediaEv(e.sid, ShapeField(e.m)))
            ELSE rest

\* C14: with streamSid set, an AI event leads to exactly one media send to
\* the caller iff it is a response.audio.delta with non-empty audio or a
\* response.output_audio.delta with non-empty delta, and the payload sent
\* is the matched shape's own field, also when both fields are present;
\* no other event leads to a caller-bound send.
C14_PayloadOfMatchedShape ==
  \A r \in Relays : twCalls[r] = MediaByShape(aiIn[r])

\* ------------------------------------------------- messages that do not parse
SkipCallerMsgs == {StartMsg("SX1"), MediaMsg("P1"), BadCallerMsg}
SkipAiMsgs == {AudioMsg("A1"), BadAiMsg}

\* One call in which either channel may deliver a payload JSON.parse
\* rejects, among well-formed events.
NextSkip ==
  \/ \E r \in One : Connection(r, "CA1")
  \/ \E r \in One, m \in SkipCallerMsgs : TwilioMessage(r, m)
  \/ \E r \in One : ConnectOpen(r)
  \/ \E r \in One, m \in SkipAiMsgs : AIMessage(r, m)
  \/ \E r \in One : AIRemoteClose(r)
  \/ \E r \in One : AICloseDone(r)
  \/ \E r \in One : TwilioRemoteClose(r)
  \/ \E r \in One : TwilioCloseDone(r)

SpecSkip == Init /\ [][NextSkip]_vars

\* This step delivers a malformed message on the caller / the AI channel.
MalformedCallerStep(r) ==
  /\ Len(callerIn'[r]) = Len(callerIn[r]) + 1
  /\ CallerBodyThrows(callerIn'[r][Len(callerIn'[r])].m)
MalformedAiStep(r) ==
  /\ Len(aiIn'[r]) = Len(aiIn[r]) + 1
  /\ AiBodyThrows(aiIn'[r][Len(aiIn'[r])].m)

\* C15: a malformed message on either channel is skipped: streamSid,
\* aiReady, the Session, both sockets' states and every other variable of
\* the program stay as they were, no send is made on either socket, and no
\* exception leaves the listener; so what follows is processed as if the
\* message had not arrived.
C15_MalformedSkipped ==
  [][\A r \in Relays :
       (MalformedCallerStep(r) \/ MalformedAiStep(r)) =>
         /\ UNCHANGED <<storeVars, envVars, errVars, relayVars, sockVars>>
         /\ ~uncaught'[r]]_vars

\* A malformed message on each channel was followed by a well-formed one
\* that took effect.
C15_Witness ==
  \E r \in One :
    /\ Len(callerIn[r]) = 2 /\ Len(aiIn[r]) = 2
    /\ callerIn[r][1].m = BadCallerMsg /\ callerIn[r][2].m = StartMsg("SX1")
    /\ aiIn[r][1].m = BadAiMsg /\ aiIn[r][2].m = AudioMsg("A1")
    /\ streamSid[r] = "SX1"
    /\ twOut[r] = <<MediaEv("SX1", "A1")>>

\* ------------------------------------------------- caller audio to the AI
MediaCallerMsgs == {MediaMsg("P1"), MediaMsg("P2"), StopMsg}

\* One call: media frames and stop from the caller while the connect is
\* pending, succeeds or fails, and while either side closes.
NextMedia ==
  \/ \E r \in One : Connection(r, "CA1")
  \/ \E r \in One, m \in MediaCallerMsgs : TwilioMessage(r, m)
  \/ \E r \in One : ConnectOpen(r)
  \/ \E r \in One : ConnectError(r)
  \/ \E r \in One : AIRemoteClose(r)
  \/ \E r \in One : AICloseDone(r)
  \/ \E r \in One : TwilioRemoteClose(r)
  \/ \E r \in One : TwilioCloseDone(r)

SpecMedia == Init /\ [][NextMedia]_vars

\* The input_audio_buffer.append events of a sequence of AI-bound events.
RECURSIVE Appends(_)
Appends(evs) ==
  IF evs = <<>> THEN <<>>
  ELSE LET rest == Appends(SubSeq(evs, 1, Len(evs) - 1))
       IN IF evs[Len(evs)].type = "input_audio_buffer.append"
            THEN Append(rest, evs[Len(evs)]) ELSE rest

\* One append event per media frame that was received while the AI channel
\* was ready (connected and not closing or closed), in receipt order.
RECURSIVE ReadyFrames(_)
ReadyFrames(log) ==
  IF log = <<>> THEN <<>>
  ELSE LET e == log[Len(log)]
           rest == ReadyFrames(SubSeq(log, 1, Len(log) - 1))
       IN IF e.m.event = "media" /\ Truthy(e.m.payload) /\ e.ai = "OPEN"
            THEN Append(rest, AppendEv(e.m.payload)) ELSE rest

\* This step delivers a media frame to the caller listener.
MediaFrameStep(r) ==
  /\ Len(callerIn'[r]) = Len(callerIn[r]) + 1
  /\ callerIn'[r][Len(callerIn'[r])].m.event = "media"

\* C16: a media frame received while the AI connection is not ready,
\* before the connect completed or after the AI channel closed, leads to no
\* aiWS.send call, and no exception leaves the caller listener.
C16_NoAppendAttemptWhenNotReady ==
  [][\A r \in Relays :
       MediaFrameStep(r) /\ aiState[r] \in {"CONNECTING", "CLOSED"} =>
         aiCalls'[r] = aiCalls[r] /\ ~uncaught'[r]]_vars

\* C19: the append events sent to the AI channel are exactly the caller
\* media frames received while the AI channel was ready, one per frame,
\* with the same payloads in the same order; a frame received before that
\* is dropped and never sent later.
C19_AppendsAreReadyFrames ==
  \A r \in Relays : Appends(aiOut[r]) = ReadyFrames(callerIn[r])

\* A frame arrived while the connect was pending and two more, with
\* different payloads, once the AI channel was ready: only those two went
\* out, in order.
C19_Witness ==
  \E r \in One :
    /\ Len(callerIn[r]) = 3
    /\ callerIn[r][1].m = MediaMsg("P1") /\ callerIn[r][1].ai = "CONNECTING"
    /\ callerIn[r][2].m = MediaMsg("P2") /\ callerIn[r][2].ai = "OPEN"
    /\ callerIn[r][3].m = MediaMsg("P1") /\ callerIn[r][3].ai = "OPEN"
    /\ Appends(aiOut[r]) = <<AppendEv("P2"), AppendEv("P1")>>

\* An AI audio delta: an event of one of the two audio shapes whose own
\* field is non-empty.
AudioDeltaEvent(m) ==
  \/ m.type = "response.audio.delta" /\ m.audio \notin {Null, Empty}
  \/ m.type = "response.output_audio.delta" /\ m.delta \notin {Null, Empty}

\* One media event per audio delta received while streamSid was set (and,
\* with needOpen, while the caller socket was open), in receipt order, with
\* the streamSid of that moment.
RECURSIVE DeltasWhileRouted(_, _)
DeltasWhileRouted(log, needOpen) ==
  IF log = <<>> THEN <<>>
  ELSE LET e == log[Len(log)]
           rest == DeltasWhileRouted(SubSeq(log, 1, Len(log) - 1), needOpen)
       IN IF /\ AudioDeltaEvent(e.m)
             /\ e.sid \notin {Null, Empty}
             /\ needOpen => e.tw = "OPEN"
            THEN Append(rest, MediaEv(e.sid, Or(e.m.audio, e.m.delta)))
            ELSE rest

\* C20 as stated: the media events sent on the caller channel are exactly
\* the AI audio deltas received while streamSid was set, one per delta, in
\* receipt order.
C20_MediaAreRoutedDeltas_AsStated ==
  \A r \in Relays : twOut[r] = DeltasWhileRouted(aiIn[r], FALSE)

\* C20: the media events sent on the caller channel are exactly the AI
\* audio deltas received while streamSid was set and the caller channel
\* open, one per delta, in receipt order; a delta received while streamSid
\* was unset is never sent, also not after start arrives.
C20_MediaAreRoutedDeltas ==
  \A r \in Relays : twOut[r] = DeltasWhileRouted(aiIn[r], TRUE)

\* A delta arrived before the start frame and one after it: only the
\* second was sent.
C20_Witness ==
  \E r \in One :
    /\ Len(aiIn[r]) = 2
    /\ aiIn[r][1].m = AudioMsg("A1") /\ aiIn[r][1].sid = Null
    /\ aiIn[r][2].m = OutputAudioMsg("D1") /\ aiIn[r][2].sid = "SX1"
    /\ streamSid[r] = "SX1"
    /\ twOut[r] = <<MediaEv("SX1", "D1")>>

\* This step is an event of the connection r: its arrival, a message or a
\* close on one of its sockets, or the end of its connect.
RelayEvent(r) ==
  \/ \E cs \in CallSids : Connection(r, cs)
  \/ \E m \in PairCallerMsgs(r) : TwilioMessage(r, m)
  \/ ConnectOpen(r)
  \/ ConnectError(r)
  \/ \E m \in PairAiMsgs(r) : AIMessage(r, m)
  \/ AIClose(r)
  \/ TwilioClose(r)

\* What belongs to the call of connection q: its route, its AI readiness,
\* its Session's content, its sockets' states and what went out on them.
CallState(q) ==
  <<streamSid[q], aiReady[q], aiWS[q], twState[q], aiState[q],
    aiOut[q], twOut[q], aiCalls[q], twCalls[q],
    IF session[q] = NoObj THEN <<>>
    ELSE <<heap[session[q]].transcript, heap[session[q]].fields>> >>

\* Only the connection's own audio went out on its two sockets.
OwnAudioOnly(q) ==
  /\ \A i \in DOMAIN aiCalls[q] :
       aiCalls[q][i].type = "input_audio_buffer.append"
         => aiCalls[q][i].audio = PairFrame(q)
  /\ \A i \in DOMAIN twCalls[q] :
       twCalls[q][i] = MediaEv(PairSid(q), PairAudio(q))

\* C18: two concurrent relays with different callSids are isolated: under
\* every interleaving an event of one leaves the other's streamSid,
\* aiReady, Session transcript and fields and socket states as they were,
\* and no audio of one call is sent on the other call's sockets.
C18_CallsIsolated ==
  /\ [][\A r \in Relays, q \in Relays :
          (r # q /\ pc[q] # "none" /\ callSid[q] # callSid'[r] /\ RelayEvent(r))
            => CallState(q)' = CallState(q)]_vars
  /\ [](callSid["r1"] # callSid["r2"] => \A q \in Relays : OwnAudioOnly(q))

\* Two calls are running; one has its route, the other has a transcript
\* entry, and neither has the other's.
C18_Witness ==
  /\ callSid["r1"] = "CA1" /\ callSid["r2"] = "CA2"
  /\ pc["r1"] = "active" /\ pc["r2"] = "active"
  /\ streamSid["r1"] = "SX1" /\ streamSid["r2"] = Null
  /\ heap[session["r1"]].transcript = <<>>
  /\ Len(heap[session["r2"]].transcript) = 1

\* ------------------------------------------------- socket 'error' events
MaxErrors == 2

\* socket.once('error', reject) of connectOpenAI is the only 'error'
\* listener the AI socket ever gets; once() removes it at the first event.
AiErrorListenerLeft(r) == aiErrors[r] = 0

\* The connection handler adds 'message' and 'close' listeners to twilioWS
\* and no 'error' listener.
TwilioErrorListener == FALSE

\* The AI socket emits 'error' after it opened (ws closes the connection
\* on such an error).  An EventEmitter that emits 'error' with no listener
\* throws, and nothing catches that: the process ends.
AIError(r) ==
  /\ pc[r] = "active"
  /\ aiState[r] \in {"OPEN", "CLOSING"}
  /\ aiErrors[r] < MaxErrors
  /\ aiErrors' = [aiErrors EXCEPT ![r] = @ + 1]
  /\ crashed' = (crashed \/ ~AiErrorListenerLeft(r))
  /\ aiState' = [aiState EXCEPT ![r] = CloseSock(@)]
  /\ UNCHANGED <<storeVars, envVars, twErrors, faults, relayVars, twState, aiOut, twOut,
                 aiLate, twLate, aiCalls, twCalls, obsVars>>

\* The caller socket emits 'error' (for example on an invalid frame).
TwilioError(r) ==
  /\ pc[r] # "none"
  /\ twState[r] \in {"OPEN", "CLOSING"}
  /\ twErrors[r] < MaxErrors
  /\ twErrors' = [twErrors EXCEPT ![r] = @ + 1]
  /\ crashed' = (crashed \/ ~TwilioErrorListener)
  /\ twState' = [twState EXCEPT ![r] = CloseSock(@)]
  /\ UNCHANGED <<storeVars, envVars, aiErrors, faults, relayVars, aiState, aiOut, twOut,
                 aiLate, twLate, aiCalls, twCalls, obsVars>>

ErrCallerMsgs == {StartMsg("SX1"), MediaMsg("P1")}

\* One call whose sockets may emit 'error'; nothing runs once the process
\* has ended.
NextErr ==
  \/ \E r \in One : ~crashed /\ Connection(r, "CA1")
  \/ \E r \in One, m \in ErrCallerMsgs : ~crashed /\ TwilioMessage(r, m)
  \/ \E r \in One : ~crashed /\ ConnectOpen(r)
  \/ \E r \in One : ~crashed /\ ConnectError(r)
  \/ \E r \in One : ~crashed /\ AIError(r)
  \/ \E r \in One : ~crashed /\ TwilioError(r)
  \/ \E r \in One : ~crashed /\ AIRemoteClose(r)
  \/ \E r \in One : ~crashed /\ AICloseDone(r)
  \/ \E r \in One : ~crashed /\ TwilioRemoteClose(r)
  \/ \E r \in One : ~crashed /\ TwilioCloseDone(r)

SpecErr == Init /\ [][NextErr]_vars

\* C17: no 'error' event of the AI socket (during the handshake, after
\* open, or repeated) or of the caller socket terminates the process: each
\* finds a registered listener or a catch.
C17_NoErrorEndsProcess == ~crashed

\* ------------------------------------------------- more than one start
\* Start frames with the identifier under start.streamSid, at the top
\* level, and with none; and stop.
RouteCallerMsgs ==
  {StartMsg("SX1"), CallerMsg("start", Null, "SX2", Null),
   CallerMsg("start", Null, Null, Null), StopMsg}
RouteAiMsgs == {AudioMsg("A1")}

\* One call whose caller channel delivers several start frames.
NextRoute ==
  \/ \E r \in One : Connection(r, "CA1")
  \/ \E r \in One, m \in RouteCallerMsgs : TwilioMessage(r, m)
  \/ \E r \in One : ConnectOpen(r)
  \/ \E r \in One, m \in RouteAiMsgs : AIMessage(r, m)
  \/ \E r \in One : AIRemoteClose(r)
  \/ \E r \in One : AICloseDone(r)
  \/ \E r \in One : TwilioRemoteClose(r)
  \/ \E r \in One : TwilioCloseDone(r)

SpecRoute == Init /\ [][NextRoute]_vars

\* C21: every media event sent to the caller carries a non-null streamSid,
\* the one assigned by the most recent start frame received on the call.
C21_MediaCarriesLatestRoute ==
  [][\A r \in Relays :
       twCalls'[r] # twCalls[r] =>
         /\ Len(twCalls'[r]) = Len(twCalls[r]) + 1
         /\ SubSeq(twCalls'[r], 1, Len(twCalls[r])) = twCalls[r]
         /\ twCalls'[r][Len(twCalls'[r])].streamSid \notin {Null, Empty}
         /\ twCalls'[r][Len(twCalls'[r])].streamSid = LastStartSid(callerIn[r])]_vars

\* Audio went out under the first route and, after a second start frame,
\* under the second.
C21_Witness ==
  \E r \in One :
    /\ Len(twCalls[r]) = 2
    /\ twCalls[r][1].streamSid = "SX1"
    /\ twCalls[r][2].streamSid = "SX2"

\* C29: once a start frame has set streamSid to a non-null value, no later
\* caller event (another start, with or without an identifier, media, stop,
\* a malformed message) sets it back to null.
C29_RouteNeverReset ==
  [][\A r \in Relays :
       streamSid[r] \notin {Null, Empty} => streamSid'[r] \notin {Null, Empty}]_vars

\* ------------------------------------------------------ teardown on stop
\* This step delivers a stop frame to the caller listener.
StopStep(r) ==
  /\ Len(callerIn'[r]) = Len(callerIn[r]) + 1
  /\ callerIn'[r][Len(callerIn'[r])].m.event = "stop"

\* How many of the events in evs are ev.
RECURSIVE CountEv(_, _)
CountEv(evs, ev) ==
  IF evs = <<>> THEN 0
  ELSE CountEv(SubSeq(evs, 1, Len(evs) - 1), ev)
         + (IF evs[Len(evs)] = ev THEN 1 ELSE 0)

\* C22: on a stop frame with the AI channel connected the teardown runs in
\* this order: commit sent, closing response.create sent, AI channel
\* closed, caller channel closed; and no append reaches the AI channel
\* after the commit.
C22_TeardownOrder ==
  /\ [][\A r \in Relays :
          StopStep(r) /\ aiWS[r] =>
            /\ stopLog'[r] = stopLog[r] \o
                 <<"commit", "response.create", "aiWS.close", "twilioWS.close">>
            /\ aiState[r] = "OPEN" => aiOut'[r] = aiOut[r] \o <<CommitEv, ResponseEv>>
            /\ aiState'[r] # "OPEN" /\ twState'[r] # "OPEN"]_vars
  /\ [](\A r \in Relays : \A i \in DOMAIN aiOut[r], j \in DOMAIN aiOut[r] :
          i < j /\ aiOut[r][i] = CommitEv
            => aiOut[r][j].type # "input_audio_buffer.append")

\* A stop frame arrived after a forwarded media frame, with the AI channel
\* open, and one more media frame arrived after it.
C22_Witness ==
  \E r \in One :
    /\ Len(callerIn[r]) = 3
    /\ callerIn[r][1].m = MediaMsg("P1") /\ callerIn[r][1].ai = "OPEN"
    /\ callerIn[r][2].m = StopMsg /\ callerIn[r][2].ai = "OPEN"
    /\ callerIn[r][3].m = MediaMsg("P2")
    /\ aiOut[r] = <<ConfigEv, ResponseEv, AppendEv("P1"), CommitEv, ResponseEv>>
    /\ stopLog[r] = StopSteps

\* C24: per call, response.create reaches the AI channel exactly once as
\* the greeting when the connect succeeded and at most once more as the
\* closing remark, and commit at most once, also when the caller delivers
\* several stop frames before its channel is closed.
C24_GreetingAndClosingOnce ==
  \A r \in Relays :
    LET creates == CountEv(aiOut[r], ResponseEv)
        commits == CountEv(aiOut[r], CommitEv)
    IN /\ commits <= 1
       /\ IF pc[r] = "active"
            THEN aiOut[r][2] = ResponseEv /\ creates = 1 + commits
            ELSE creates = 0 /\ commits = 0

\* Two stop frames were handled with the AI socket set; the commit and the
\* closing remark went out once.
C24_Witness ==
  \E r \in One :
    /\ Len(callerIn[r]) = 2
    /\ callerIn[r][1].m = StopMsg /\ callerIn[r][1].ai = "OPEN"
    /\ callerIn[r][2].m = StopMsg
    /\ Len(stopLog[r]) = 8
    /\ CountEv(aiOut[r], CommitEv) = 1 /\ CountEv(aiOut[r], ResponseEv) = 2

\* An operation of the stop branch on the AI socket will throw.
InjectFault(r, f) ==
  /\ pc[r] # "none"
  /\ f \notin faults[r]
  /\ faults' = [faults EXCEPT ![r] = @ \cup {f}]
  /\ UNCHANGED <<storeVars, envVars, aiErrors, twErrors, crashed, relayVars,
                 sockVars, obsVars>>

StopCallerMsgs == {MediaMsg("P1"), StopMsg}

\* One call whose teardown operations may throw.
NextStop ==
  \/ \E r \in One : Connection(r, "CA1")
  \/ \E r \in One, m \in StopCallerMsgs : TwilioMessage(r, m)
  \/ \E r \in One : ConnectOpen(r)
  \/ \E r \in One, f \in {"commit", "response.create", "aiWS.close"} : InjectFault(r, f)
  \/ \E r \in One : AIRemoteClose(r)
  \/ \E r \in One : AICloseDone(r)
  \/ \E r \in One : TwilioRemoteClose(r)
  \/ \E r \in One : TwilioCloseDone(r)

SpecStop == Init /\ [][NextStop]_vars

\* C23: the teardown steps on stop are guarded one by one: whichever of the
\* commit, the closing response.create and the AI close throws, the steps
\* after it are still carried out, the caller channel is closed, and no
\* exception leaves the listener.
C23_TeardownStepsIndependent ==
  [][\A r \in Relays :
       StopStep(r) /\ aiWS[r] =>
         /\ stopLog'[r] = stopLog[r] \o StopSteps
         /\ twState'[r] # "OPEN"
         /\ "aiWS.close" \notin faults[r] => aiState'[r] # "OPEN"
         /\ (aiState[r] = "OPEN" /\ "response.create" \notin faults[r]) =>
              /\ Len(aiOut'[r]) > Len(aiOut[r])
              /\ aiOut'[r][Len(aiOut'[r])] = ResponseEv
         /\ ~uncaught'[r]]_vars

\* The commit threw; the closing remark was sent all the same and both
\* sockets are closing.
C23_Witness ==
  \E r \in One :
    /\ faults[r] = {"commit"}
    /\ stopLog[r] = StopSteps
    /\ aiOut[r] = <<ConfigEv, ResponseEv, ResponseEv>>
    /\ aiState[r] = "CLOSING" /\ twState[r] = "CLOSING"

\* C25: on each AI connection that opened exactly one session.update is
\* sent, and it precedes every other outbound event (the greeting, every
\* append, the commit); aiReady is set only after the socket opened and the
\* configuration was sent.
C25_ConfigurationFirst ==
  \A r \in Relays :
    /\ CountEv(aiOut[r], ConfigEv) = (IF pc[r] = "active" THEN 1 ELSE 0)
    /\ aiOut[r] # <<>> => aiOut[r][1] = ConfigEv
    /\ aiCalls[r] # <<>> => aiCalls[r][1] = ConfigEv
    /\ aiReady[r] =>
         aiState[r] # "CONNECTING" /\ aiOut[r] # <<>> /\ aiOut[r][1] = ConfigEv

\* A media frame arrived before the connect completed and one after; the
\* configuration is the first event on the AI channel, ahead of the
\* greeting, the append and the commit.
C25_Witness ==
  \E r \in One :
    /\ aiReady[r]
    /\ Len(callerIn[r]) = 3
    /\ callerIn[r][1].m = MediaMsg("P1") /\ callerIn[r][1].ai = "CONNECTING"
    /\ aiOut[r] = <<ConfigEv, ResponseEv, AppendEv("P2"), CommitEv, ResponseEv>>

\* ------------------------------------------------- the summary request
\* Variant: the catch block posts the summary again.
AfterFetchFailure_Retry(cs) ==
  [notified EXCEPT ![cs] = Append(@, @[Len(@)])]

\* catch (e) { console.error('[n8n] POST failed:', e); }
AfterFetchFailure(cs) == notified

\* The await of fetch in finalizeAndNotify ends: the request succeeded
\* (a log line) or failed (the catch block).  A request may also never end.
FetchSettles(cs, outcome) ==
  /\ Len(settled[cs]) < Len(notified[cs])
  /\ settled' = [settled EXCEPT ![cs] = Append(@, outcome)]
  /\ notified' = IF outcome = "failed" THEN AfterFetchFailure(cs) ELSE notified
  /\ UNCHANGED <<sessions, heap, nObj, now, webhook, errVars, relayVars,
                 sockVars, obsVars>>

NotifyAiMsgs == {TranscriptMsg(Null, "t1")}

\* One call and the summary request made when it ends.
NextNotify ==
  \/ Tick
  \/ \E r \in One : Connection(r, "CA1")
  \/ \E r \in One : ConnectOpen(r)
  \/ \E r \in One, m \in NotifyAiMsgs : AIMessage(r, m)
  \/ \E r \in One : AIRemoteClose(r)
  \/ \E r \in One : AICloseDone(r)
  \/ \E r \in One : TwilioRemoteClose(r)
  \/ \E r \in One : TwilioCloseDone(r)
  \/ \E o \in {"ok", "failed"} : FetchSettles("CA1", o)

SpecNotify == Init /\ [][NextNotify]_vars

\* C26: the summary request is made once per finalization and never
\* retried, and how it ends changes nothing else: whether it succeeds,
\* fails or never ends, the caller close has closed the AI channel and
\* stopped the timer, and the relay, the process and other calls are left
\* as they were.
C26_NotifyOncePerFinalize ==
  /\ [][(settled' # settled) =>
          /\ notified' = notified
          /\ UNCHANGED <<sessions, heap, relayVars, sockVars, errVars, obsVars>>]_vars
  /\ [](\A r \in One :
          /\ Len(notified["CA1"]) = (IF webhook THEN finalizeCalls[r] ELSE 0)
          /\ Len(settled["CA1"]) <= Len(notified["CA1"])
          /\ closedAt[r] = "active" =>
               /\ twState[r] = "CLOSED" /\ aiState[r] \in {"CLOSING", "CLOSED"}
               /\ ~dump[r] /\ ~crashed)

\* The call ended, its one summary request failed, and both channels are
\* closed.
C26_Witness ==
  \E r \in One :
    /\ finalizeCalls[r] = 1
    /\ Len(notified["CA1"]) = 1 /\ Len(notified["CA1"][1].transcript) = 1
    /\ settled["CA1"] = <<"failed">>
    /\ twState[r] = "CLOSED" /\ aiState[r] = "CLOSED"

\* ------------------------------------------------------------ lifecycle
\* A stop frame was delivered to the caller listener of r.
StopSeen(r) == \E i \in DOMAIN callerIn[r] : callerIn[r][i].m.event = "stop"

\* C27: the relay is Active (aiReady true, greeting issued) only while both
\* channels are open, and it never becomes Active after a stop event or a
\* caller channel close.
C27_LifecycleForward ==
  /\ [][\A r \in Relays :
          (~aiReady[r] /\ aiReady'[r]) => (twState[r] = "OPEN" /\ ~StopSeen(r))]_vars
  /\ [](\A r \in Relays :
          aiReady[r] => (aiState[r] = "OPEN" /\ twState[r] = "OPEN"))

\* ------------------------------------------- the record read at the end
\* C28: when the caller channel closes, the record finalizeAndNotify reads
\* from the store for the callSid is the record the relay appended to, and
\* the notification carries the transcript the relay accumulated, also
\* when POST /voice came again for the callSid while the relay was running.
C28_SameRecordAtClose ==
  [][\A r \in Relays :
       finalizeCalls'[r] # finalizeCalls[r] =>
         /\ sessions[callSid[r]] = session[r]
         /\ notified'[callSid[r]] # notified[callSid[r]] =>
              notified'[callSid[r]][Len(notified'[callSid[r]])].transcript
                = heap[session[r]].transcript]_vars

C31_TimerCancelled ==
  \A r \in Relays :
    (twState[r] = "CLOSED" /\ aiState[r] = "CLOSED") => ~dump[r]

====
